---- MODULE Spec2Model ----
(***************************************************************************)
(* A model of compmorph: hw2/hw2.py (the Russian-Czech cognate matcher:    *)
(* transliteration, czech_processing, substitution_cost, the lru_cache'd   *)
(* levenshtein and translate_words) and project/project.py (the suffix     *)
(* trie Trie with record, most_diverse_class and guess).                   *)
(*                                                                         *)
(* A word is a sequence of characters, a character a one-element string.   *)
(* Characters outside ASCII are written by name:                           *)
(*   Czech    a_acute i_acute o_acute u_acute e_acute y_acute u_ring       *)
(*            n_caron c_caron d_caron e_caron r_caron t_caron              *)
(*   Russian  cyr_a ... cyr_ya, among them cyr_x (U+0445), cyr_shcha       *)
(*            (U+0449), cyr_hard (U+044A), cyr_soft (U+044C), cyr_e_rev    *)
(*            (U+044D), cyr_i_dotted (U+0456); CYR_N is capital U+041D     *)
(*   translit e_diaeresis z_caron c_caron s_caron e_grave, dprime (U+02BA) *)
(*            and prime (U+02B9)                                           *)
(* The ASCII apostrophe U+0027 is written "'".                             *)
(***************************************************************************)
EXTENDS Integers, Sequences, FiniteSets, TLC

VARIABLES
    \* the position in the code that runs
    pc,
    \* the arguments and the value of the last levenshtein call (hw2.py 86-103)
    source, target, dist,
    \* the lru_cache of levenshtein, least recently used first (hw2.py 86)
    cache,
    \* czech_processing's replace calls, one at a time (hw2.py 55-73)
    word, cur, applied,
    \* translate_words (hw2.py 122-149): its arguments, its locals, what it
    \* has yielded, and what an earlier run on the same arguments yielded
    russian, czech, n, sorted_czech, todo, r_word, r_trans, best, candidate,
    c_left, out, run, first_out,
    \* Trie (project.py 5-101): the nodes, the words recorded, the last guess
    nodes, recorded, guessed

levVars == <<source, target, dist>>
orderVars == <<word, cur, applied>>
transVars == <<russian, czech, n, sorted_czech, todo, r_word, r_trans, best,
               candidate, c_left, out, run, first_out>>
trieVars == <<nodes, recorded, guessed>>

vars == <<pc, levVars, cache, orderVars, transVars, trieVars>>

\* the parts of the state a specification does not use
LevIdle == source = <<>> /\ target = <<>> /\ dist = 0

CacheIdle == cache = <<>>

OrderIdle == word = <<>> /\ cur = <<>> /\ applied = {}

TransIdle ==
    /\ russian = <<>> /\ czech = <<>> /\ n = 0
    /\ sorted_czech = <<>> /\ todo = <<>>
    /\ r_word = <<>> /\ r_trans = <<>> /\ best = 0 /\ candidate = <<>>
    /\ c_left = <<>> /\ out = <<>> /\ run = 0 /\ first_out = <<>>

TrieIdle == nodes = <<>> /\ recorded = <<>> /\ guessed = <<>>

(***************************************************************************)
(* Bounds of the model.                                                    *)
(***************************************************************************)
\* the longest argument of a levenshtein call made on its own
MaxLen == 3
\* the longest word put through the replace calls in any order
MaxOrderLen == 2
\* the most source and target words of a scan
MaxSource == 2
MaxTarget == 2
\* the highest count and the largest n where n varies
MaxFreq == 2
MaxN == 3
\* the most record calls made on a trie
MaxRecords == 3
\* lru_cache's maxsize, scaled down from 8192 (hw2.py 86)
maxsize == 3

\* translate_words' n as the program passes it (hw2.py 158)
DefaultN == 5000

(***************************************************************************)
(* Python's built-ins, as the code uses them.                              *)
(***************************************************************************)
\* s[1:]
Rest(s) == SubSeq(s, 2, Len(s))

\* min(a, b, c)
Min3(a, b, c) == IF a <= b /\ a <= c THEN a ELSE IF b <= c THEN b ELSE c

\* abs(x)
Abs(x) == IF x < 0 THEN -x ELSE x

\* max(a, b)
Max(a, b) == IF a >= b THEN a ELSE b

\* the words of length at most n over an alphabet
WordsUpTo(alphabet, len) == UNION {[1..k -> alphabet] : k \in 0..len}

(***************************************************************************)
(* str.replace(old, new): every non-overlapping occurrence of old, found   *)
(* left to right.                                                          *)
(***************************************************************************)
RECURSIVE Replace(_, _, _)
Replace(s, old, new) ==
    IF Len(s) < Len(old)
    THEN s
    ELSE IF SubSeq(s, 1, Len(old)) = old
    THEN new \o Replace(SubSeq(s, Len(old) + 1, Len(s)), old, new)
    ELSE <<Head(s)>> \o Replace(Rest(s), old, new)

(***************************************************************************)
(* transliteration, hw2.py 8-50.  tr is a dict literal: of the two entries *)
(* for the soft sign (lines 43 and 45) the later one is the one the dict   *)
(* holds.                                                                  *)
(***************************************************************************)
\* char.lower()
Lower(char) == IF char = "CYR_N" THEN "cyr_n" ELSE char

\* the dict literal, written in source order; a later entry for a key
\* replaces an earlier one
tr_entries ==
    << <<"cyr_a", <<"a">> >>,
       <<"cyr_b", <<"b">> >>,
       <<"cyr_v", <<"v">> >>,
       <<"cyr_g", <<"g">> >>,
       <<"cyr_d", <<"d">> >>,
       <<"cyr_e", <<"e">> >>,
       <<"cyr_yo", <<"e_diaeresis">> >>,
       <<"cyr_zh", <<"z_caron">> >>,
       <<"cyr_z", <<"z">> >>,
       <<"cyr_i", <<"i">> >>,
       <<"cyr_i_dotted", <<"i">> >>,
       <<"cyr_j", <<"j">> >>,
       <<"cyr_k", <<"k">> >>,
       <<"cyr_l", <<"l">> >>,
       <<"cyr_m", <<"m">> >>,
       <<"cyr_n", <<"n">> >>,
       <<"cyr_o", <<"o">> >>,
       <<"cyr_p", <<"p">> >>,
       <<"cyr_r", <<"r">> >>,
       <<"cyr_s", <<"s">> >>,
       <<"cyr_t", <<"t">> >>,
       <<"cyr_u", <<"u">> >>,
       <<"cyr_f", <<"f">> >>,
       <<"cyr_x", <<"x">> >>,
       <<"cyr_c", <<"c">> >>,
       <<"cyr_ch", <<"c_caron">> >>,
       <<"cyr_sh", <<"s_caron">> >>,
       <<"cyr_shcha", <<"s_caron", "c_caron">> >>,
       <<"cyr_hard", <<"dprime">> >>,
       <<"cyr_soft", <<"'">> >>,
       <<"cyr_y", <<"y">> >>,
       <<"cyr_soft", <<"prime">> >>,
       <<"cyr_e_rev", <<"e_grave">> >>,
       <<"cyr_yu", <<"j", "u">> >>,
       <<"cyr_ya", <<"j", "a">> >> >>

\* the value the dict holds for char among its first k entries, or char
\* itself: tr.get(char, char)
RECURSIVE tr_lookup(_, _)
tr_lookup(char, k) ==
    IF k = 0
    THEN <<char>>
    ELSE IF tr_entries[k][1] = char
    THEN tr_entries[k][2]
    ELSE tr_lookup(char, k - 1)

tr_get(char) == tr_lookup(char, Len(tr_entries))

RECURSIVE transliteration(_)
transliteration(russian_word) ==
    IF russian_word = <<>>
    THEN <<>>
    ELSE tr_get(Lower(Head(russian_word))) \o transliteration(Rest(russian_word))

(***************************************************************************)
(* czech_processing, hw2.py 53-73: fourteen replace calls, in this order.  *)
(***************************************************************************)
\* the bug of mapping the digraph rule's output back onto a rule's input
czech_rules_overlapping ==
    << <<<<"a_acute">>, <<"a">>>>,
       <<<<"i_acute">>, <<"i">>>>,
       <<<<"o_acute">>, <<"o">>>>,
       <<<<"u_acute">>, <<"u">>>>,
       <<<<"e_acute">>, <<"e">>>>,
       <<<<"y_acute">>, <<"y">>>>,
       <<<<"u_ring">>,  <<"u">>>>,
       <<<<"c", "h">>,  <<"x">>>>,
       <<<<"n_caron">>, <<"n", "'">>>>,
       <<<<"c_caron">>, <<"c">>>>,
       <<<<"d_caron">>, <<"d", "'">>>>,
       <<<<"e_caron">>, <<"e">>>>,
       <<<<"r_caron">>, <<"r", "'">>>>,
       <<<<"t_caron">>, <<"t", "'">>>> >>

czech_rules ==
    << <<<<"a_acute">>, <<"a">>>>,
       <<<<"i_acute">>, <<"i">>>>,
       <<<<"o_acute">>, <<"o">>>>,
       <<<<"u_acute">>, <<"u">>>>,
       <<<<"e_acute">>, <<"e">>>>,
       <<<<"y_acute">>, <<"y">>>>,
       <<<<"u_ring">>,  <<"u">>>>,
       <<<<"c", "h">>,  <<"x">>>>,
       <<<<"n_caron">>, <<"n", "'">>>>,
       <<<<"c_caron">>, <<"c", "'">>>>,
       <<<<"d_caron">>, <<"d", "'">>>>,
       <<<<"e_caron">>, <<"e">>>>,
       <<<<"r_caron">>, <<"r", "'">>>>,
       <<<<"t_caron">>, <<"t", "'">>>> >>

\* one replace call: rule number r applied to s
ApplyRule(s, r) == Replace(s, czech_rules[r][1], czech_rules[r][2])

\* the first k replace calls, in the order of the source
RECURSIVE ApplyRules(_, _)
ApplyRules(s, k) ==
    IF k = 0 THEN s ELSE ApplyRule(ApplyRules(s, k - 1), k)

czech_processing(czech_word) == ApplyRules(czech_word, Len(czech_rules))

(***************************************************************************)
(* substitution_cost, hw2.py 76-83.                                        *)
(***************************************************************************)
substitution_cost_symmetric(ruchar, cschar) ==
    IF {ruchar, cschar} \in {{"i", "y"}, {"g", "h"}} THEN 0 ELSE 1

substitution_cost(ruchar, cschar) ==
    IF <<ruchar, cschar>> \in {<<"i", "y">>, <<"g", "h">>, <<"y", "i">>}
    THEN 0
    ELSE 1

(***************************************************************************)
(* levenshtein, hw2.py 86-103, evaluated without its cache.                *)
(***************************************************************************)
RECURSIVE levenshtein_free_insert(_, _)
\* the bug of a forgotten "+ 1" on the insert branch
levenshtein_free_insert(s, t) ==
    IF s = <<>> \/ t = <<>>
    THEN Len(s) + Len(t)
    ELSE IF Head(s) = Head(t)
    THEN levenshtein_free_insert(Rest(s), Rest(t))
    ELSE LET insert     == levenshtein_free_insert(s, Rest(t))
             delete     == levenshtein_free_insert(Rest(s), t) + 1
             substitute == levenshtein_free_insert(Rest(s), Rest(t))
                             + substitution_cost(Head(s), Head(t))
         IN  Min3(insert, delete, substitute)

RECURSIVE levenshtein_swapped_cost(_, _)
\* the bug of substitution_cost called with (target char, source char)
levenshtein_swapped_cost(s, t) ==
    IF s = <<>> \/ t = <<>>
    THEN Len(s) + Len(t)
    ELSE IF Head(s) = Head(t)
    THEN levenshtein_swapped_cost(Rest(s), Rest(t))
    ELSE LET insert     == levenshtein_swapped_cost(s, Rest(t)) + 1
             delete     == levenshtein_swapped_cost(Rest(s), t) + 1
             substitute == levenshtein_swapped_cost(Rest(s), Rest(t))
                             + substitution_cost(Head(t), Head(s))
         IN  Min3(insert, delete, substitute)

RECURSIVE levenshtein(_, _)
levenshtein(s, t) ==
    IF s = <<>> \/ t = <<>>
    THEN Len(s) + Len(t)
    ELSE IF Head(s) = Head(t)
    THEN levenshtein(Rest(s), Rest(t))
    ELSE LET insert     == levenshtein(s, Rest(t)) + 1
             delete     == levenshtein(Rest(s), t) + 1
             substitute == levenshtein(Rest(s), Rest(t))
                             + substitution_cost(Head(s), Head(t))
         IN  Min3(insert, delete, substitute)

(***************************************************************************)
(* levenshtein called on its own: the arguments are any two words over     *)
(* LevAlphabet, which holds the characters substitution_cost names.        *)
(***************************************************************************)
LevAlphabet == {"g", "h", "i", "y"}

LevWords == WordsUpTo(LevAlphabet, MaxLen)

InitLev ==
    /\ source \in LevWords
    /\ target \in LevWords
    /\ dist = 0
    /\ pc = "call"
    /\ CacheIdle /\ OrderIdle /\ TransIdle /\ TrieIdle

CallLevenshtein ==
    /\ pc = "call"
    /\ dist' = levenshtein(source, target)
    /\ pc' = "done"
    /\ UNCHANGED <<source, target, cache, orderVars, transVars, trieVars>>

NextLev == CallLevenshtein

SpecLev == InitLev /\ [][NextLev]_vars

(***************************************************************************)
(* The cheapest edit script, for comparison: the source is consumed left   *)
(* to right, each step one insert (cost 1), one delete (cost 1) or one     *)
(* substitution (cost 0 for the same character, else substitution_cost);   *)
(* every step is tried at every position, equal leading characters too.    *)
(***************************************************************************)
RECURSIVE EditMin(_, _)
EditMin(s, t) ==
    IF s = <<>>
    THEN Len(t)
    ELSE IF t = <<>>
    THEN Len(s)
    ELSE Min3(EditMin(s, Rest(t)) + 1,
              EditMin(Rest(s), t) + 1,
              EditMin(Rest(s), Rest(t))
                + (IF Head(s) = Head(t) THEN 0
                   ELSE substitution_cost(Head(s), Head(t))))

\* C1: levenshtein(source, target) is the cost of the cheapest sequence of
\* single-character inserts, deletes and substitutions turning source into
\* target; removing equal leading characters greedily loses nothing.
C1_LevenshteinIsMinimum ==
    pc = "done" => dist = EditMin(source, target)

\* a call where the greedy step applies and a free substitution follows
C1_Witness ==
    /\ pc = "done"
    /\ source = <<"g", "g", "i">>
    /\ target = <<"g", "h", "y">>
    /\ dist = 0

\* C5: levenshtein(a, b) >= abs(len(a) - len(b)), the free substitution
\* pairs notwithstanding.
C5_LengthLowerBound ==
    pc = "done" => dist >= Abs(Len(source) - Len(target))

\* the bound is met exactly, through a free substitution
C5_Witness ==
    /\ pc = "done"
    /\ source = <<"g", "i", "y">>
    /\ target = <<"h">>
    /\ dist = 2

\* C6: the substitution cost is taken in (source character, target
\* character) order: g -> h is free and h -> g costs 1, i -> y and y -> i
\* are both free; between two one-character words the distance is the cost
\* of that ordered pair.
C6_Directional ==
    pc = "done" =>
        /\ (source = <<"g">> /\ target = <<"h">>) => dist = 0
        /\ (source = <<"h">> /\ target = <<"g">>) => dist = 1
        /\ (source = <<"i">> /\ target = <<"y">>) => dist = 0
        /\ (source = <<"y">> /\ target = <<"i">>) => dist = 0
        /\ (Len(source) = 1 /\ Len(target) = 1) =>
              dist = IF source = target \/ <<source[1], target[1]>> \in
                                            {<<"i", "y">>, <<"g", "h">>, <<"y", "i">>}
                     THEN 0
                     ELSE 1

\* a call whose value differs from that of the call with the arguments swapped
C6_Witness ==
    /\ pc = "done"
    /\ source = <<"h">>
    /\ target = <<"g">>
    /\ dist = 1
    /\ levenshtein(target, source) = 0

(***************************************************************************)
(* The replace calls of czech_processing applied one at a time, in any     *)
(* order: applied holds the numbers of the rules already applied to cur.   *)
(***************************************************************************)
OrderAlphabet == {"c", "h", "c_caron"}

OrderWords == WordsUpTo(OrderAlphabet, MaxOrderLen)

InitOrder ==
    /\ word \in OrderWords
    /\ cur = word
    /\ applied = {}
    /\ pc = "rules"
    /\ LevIdle /\ CacheIdle /\ TransIdle /\ TrieIdle

ReplaceCall(r) ==
    /\ pc = "rules"
    /\ r \notin applied
    /\ cur' = ApplyRule(cur, r)
    /\ applied' = applied \cup {r}
    /\ UNCHANGED <<word, pc, levVars, cache, transVars, trieVars>>

NextOrder == \E r \in 1..Len(czech_rules) : ReplaceCall(r)

SpecOrder == InitOrder /\ [][NextOrder]_vars

\* every cur a word can reach with k of the rules applied, with the rules
\* applied to reach it
RECURSIVE ReachedAfter(_, _)
ReachedAfter(w, k) ==
    IF k = 0
    THEN {<<w, {}>>}
    ELSE UNION {{<<ApplyRule(p[1], r), p[2] \cup {r}>> :
                     r \in (1..Len(czech_rules)) \ p[2]} :
                p \in ReachedAfter(w, k - 1)}

\* C8 as claimed: some word comes out differently when the replace calls
\* are made in another order than that of czech_processing.  The statement
\* is about the function, the same in every state; it is evaluated where a
\* behaviour starts.
C8_OrderMatters ==
    (applied = {} /\ cur = word) =>
        \E w \in OrderWords :
            \E p \in ReachedAfter(w, Len(czech_rules)) :
                p[1] # czech_processing(w)

\* C8 as amended: the order of the replace calls does not matter.  In
\* whatever order the fourteen rules have been applied, cur is then
\* czech_processing(word).
C8_OrderIrrelevant ==
    applied = 1..Len(czech_rules) => cur = czech_processing(word)

\* all rules applied to a word where one rule's output c stands before an h
C8_Witness ==
    /\ word = <<"c_caron", "h">>
    /\ applied = 1..Len(czech_rules)
    /\ cur = <<"c", "'", "h">>

(***************************************************************************)
(* functools.lru_cache(maxsize=8192) around levenshtein, hw2.py 86.  The   *)
(* cache is a sequence of entries, the least recently used first.  A call  *)
(* that hits moves its entry to the end; a call that misses evaluates the  *)
(* function, whose recursive calls go through the cache too, and then      *)
(* stores the value, dropping the first entry when maxsize are held.       *)
(* The capacity is scaled down from 8192 so that one scan overflows it.    *)
(***************************************************************************)
\* the bug of a key that leaves out the second argument
cache_key_source_only(s, t) == <<s>>

\* the key of a call: its positional arguments
cache_key(s, t) == <<s, t>>

CacheIndex(c, key) ==
    LET hits == {j \in 1..Len(c) : c[j].key = key}
    IN  IF hits = {} THEN 0 ELSE CHOOSE j \in hits : TRUE

CacheTouch(c, j) ==
    SubSeq(c, 1, j - 1) \o SubSeq(c, j + 1, Len(c)) \o <<c[j]>>

CacheStore(c, key, result) ==
    IF CacheIndex(c, key) > 0
    THEN c
    ELSE IF Len(c) >= maxsize
    THEN Append(Rest(c), [key |-> key, result |-> result])
    ELSE Append(c, [key |-> key, result |-> result])

\* levenshtein as the program calls it: [result, cache] for a call made
\* with the cache c
RECURSIVE levenshtein_cached(_, _, _)
levenshtein_cached(c, s, t) ==
    LET key == cache_key(s, t)
        j   == CacheIndex(c, key)
    IN  IF j > 0
        THEN [result |-> c[j].result, cache |-> CacheTouch(c, j)]
        ELSE LET r ==
                   IF s = <<>> \/ t = <<>>
                   THEN [result |-> Len(s) + Len(t), cache |-> c]
                   ELSE IF Head(s) = Head(t)
                   THEN levenshtein_cached(c, Rest(s), Rest(t))
                   ELSE LET insert     == levenshtein_cached(c, s, Rest(t))
                            delete     == levenshtein_cached(insert.cache, Rest(s), t)
                            substitute == levenshtein_cached(delete.cache, Rest(s), Rest(t))
                        IN  [result |-> Min3(insert.result + 1,
                                             delete.result + 1,
                                             substitute.result
                                               + substitution_cost(Head(s), Head(t))),
                             cache  |-> substitute.cache]
             IN  [result |-> r.result, cache |-> CacheStore(r.cache, key, r.result)]

(***************************************************************************)
(* collections.Counter: a sequence of <<word, count>> with distinct words, *)
(* in insertion order.  most_common sorts by count, largest first, words   *)
(* of equal count staying in insertion order, and keeps the first k.       *)
(***************************************************************************)
RECURSIVE InsertByCount(_, _)
InsertByCount(sorted, item) ==
    IF sorted = <<>>
    THEN <<item>>
    ELSE IF Head(sorted)[2] >= item[2]
    THEN <<Head(sorted)>> \o InsertByCount(Rest(sorted), item)
    ELSE <<item>> \o sorted

RECURSIVE SortByCount(_, _)
SortByCount(counter, upto) ==
    IF upto = 0
    THEN <<>>
    ELSE InsertByCount(SortByCount(counter, upto - 1), counter[upto])

\* the bug of sorting the rarest first
RECURSIVE InsertByCountAscending(_, _)
InsertByCountAscending(sorted, item) ==
    IF sorted = <<>>
    THEN <<item>>
    ELSE IF Head(sorted)[2] <= item[2]
    THEN <<Head(sorted)>> \o InsertByCountAscending(Rest(sorted), item)
    ELSE <<item>> \o sorted

RECURSIVE SortByCountAscending(_, _)
SortByCountAscending(counter, upto) ==
    IF upto = 0
    THEN <<>>
    ELSE InsertByCountAscending(SortByCountAscending(counter, upto - 1), counter[upto])

most_common_rarest_first(counter, k) ==
    SubSeq(SortByCountAscending(counter, Len(counter)), 1,
           IF k < Len(counter) THEN k ELSE Len(counter))

most_common(counter, k) ==
    SubSeq(SortByCount(counter, Len(counter)), 1,
           IF k < Len(counter) THEN k ELSE Len(counter))

\* the words of a sequence of <<word, count>>
WordsOf(items) == [j \in 1..Len(items) |-> items[j][1]]

\* every Counter of at most maxwords words of pool, counts 1..maxcount
Counters(pool, maxwords, maxcount) ==
    UNION {{[j \in 1..k |-> <<ws[j], cs[j]>>] :
                ws \in {f \in [1..k -> pool] : \A a, b \in 1..k : a # b => f[a] # f[b]},
                cs \in [1..k -> 1..maxcount]} :
           k \in 0..maxwords}

(***************************************************************************)
(* translate_words, hw2.py 122-149.  float("Inf") is a value of its own,   *)
(* above every number.  The progress counter i is only printed.            *)
(***************************************************************************)
Inf == -1

\* x < y where either may be Inf
Less(x, y) == x # Inf /\ (y = Inf \/ x < y)

\* the bug of a strict comparison: best > max(len(r_word), len(candidate))
not_a_translation_strict(b, r, c) == Less(Max(Len(r), Len(c)), b)

\* line 145: best >= max(len(r_word), len(candidate))
not_a_translation(b, r, c) == ~Less(b, Max(Len(r), Len(c)))

\* line 137: abs(len(c_word) - len(r_trans)) > best
skip_candidate(c_word, trans, b) == Less(b, Abs(Len(c_word) - Len(trans)))

\* lines 145-149: what is yielded for a word
yielded(r, c, b) ==
    IF not_a_translation(b, r, c) THEN <<r, <<>>, Inf>> ELSE <<r, c, b>>

RussianPool ==
    { <<"cyr_x", "cyr_x">>,
      <<"cyr_g", "cyr_i">>,
      <<"cyr_n", "cyr_soft">>,
      <<"cyr_shcha">> }

CzechPool ==
    { <<"c", "h", "a">>,
      <<"c", "h", "c", "h">>,
      <<"h", "y">>,
      <<"n_caron">> }

Begin ==
    /\ pc = "begin"
    /\ sorted_czech' = WordsOf(most_common(czech, Len(czech)))
    /\ todo' = WordsOf(most_common(russian, n))
    /\ pc' = "for_r"
    /\ UNCHANGED <<russian, czech, n, r_word, r_trans, best, candidate, c_left,
                   out, run, first_out, levVars, cache, orderVars, trieVars>>

NextWord ==
    /\ pc = "for_r"
    /\ todo # <<>>
    /\ r_word' = Head(todo)
    /\ todo' = Rest(todo)
    /\ r_trans' = transliteration(Head(todo))
    /\ best' = Inf
    /\ candidate' = <<>>
    /\ c_left' = sorted_czech
    /\ pc' = "for_c"
    /\ UNCHANGED <<russian, czech, n, sorted_czech, out, run, first_out,
                   levVars, cache, orderVars, trieVars>>

SkipCandidate ==
    /\ pc = "for_c"
    /\ c_left # <<>>
    /\ skip_candidate(Head(c_left), r_trans, best)
    /\ c_left' = Rest(c_left)
    /\ UNCHANGED <<pc, russian, czech, n, sorted_czech, todo, r_word, r_trans,
                   best, candidate, out, run, first_out,
                   levVars, cache, orderVars, trieVars>>

TryCandidate ==
    /\ pc = "for_c"
    /\ c_left # <<>>
    /\ ~skip_candidate(Head(c_left), r_trans, best)
    /\ LET c_word == Head(c_left)
           c_proc == czech_processing(c_word)
           call   == levenshtein_cached(cache, r_trans, c_proc)
       IN  /\ source' = r_trans
           /\ target' = c_proc
           /\ dist' = call.result
           /\ cache' = call.cache
           /\ candidate' = IF Less(call.result, best) THEN c_word ELSE candidate
           /\ best' = IF Less(call.result, best) THEN call.result ELSE best
           /\ pc' = IF call.result = 0 THEN "yield" ELSE "for_c"
    /\ c_left' = Rest(c_left)
    /\ UNCHANGED <<russian, czech, n, sorted_czech, todo, r_word, r_trans,
                   out, run, first_out, orderVars, trieVars>>

EndOfCandidates ==
    /\ pc = "for_c"
    /\ c_left = <<>>
    /\ pc' = "yield"
    /\ UNCHANGED <<russian, czech, n, sorted_czech, todo, r_word, r_trans,
                   best, candidate, c_left, out, run, first_out,
                   levVars, cache, orderVars, trieVars>>

Yield ==
    /\ pc = "yield"
    /\ out' = Append(out, yielded(r_word, candidate, best))
    /\ pc' = "for_r"
    /\ UNCHANGED <<russian, czech, n, sorted_czech, todo, r_word, r_trans,
                   best, candidate, c_left, run, first_out,
                   levVars, cache, orderVars, trieVars>>

EndOfWords ==
    /\ pc = "for_r"
    /\ todo = <<>>
    /\ pc' = "return"
    /\ UNCHANGED <<russian, czech, n, sorted_czech, todo, r_word, r_trans,
                   best, candidate, c_left, out, run, first_out,
                   levVars, cache, orderVars, trieVars>>

\* translate_words called once more with the same arguments; the cache of
\* levenshtein lives on
RunAgain ==
    /\ pc = "return"
    /\ run = 1
    /\ run' = 2
    /\ first_out' = out
    /\ out' = <<>>
    /\ pc' = "begin"
    /\ UNCHANGED <<russian, czech, n, sorted_czech, todo, r_word, r_trans,
                   best, candidate, c_left, levVars, cache, orderVars, trieVars>>

TransStart ==
    /\ sorted_czech = <<>> /\ todo = <<>>
    /\ r_word = <<>> /\ r_trans = <<>> /\ best = Inf /\ candidate = <<>>
    /\ c_left = <<>> /\ out = <<>> /\ run = 1 /\ first_out = <<>>
    /\ pc = "begin"
    /\ LevIdle /\ CacheIdle /\ OrderIdle /\ TrieIdle

\* the program's call: n = 5000, more than the words at hand.  Every word
\* is counted once, so that most_common keeps the insertion order and the
\* vocabulary is scanned in every order.
InitScan ==
    /\ russian \in Counters(RussianPool, MaxSource, 1)
    /\ czech \in Counters(CzechPool, MaxTarget, 1)
    /\ n = DefaultN
    /\ TransStart

NextScan ==
    \/ Begin
    \/ NextWord
    \/ SkipCandidate
    \/ TryCandidate
    \/ EndOfCandidates
    \/ Yield
    \/ EndOfWords
    \/ RunAgain

SpecScan == InitScan /\ [][NextScan]_vars

\* translate_words with any n, over one fixed target vocabulary
TopPool ==
    { <<"cyr_x", "cyr_x">>,
      <<"cyr_g", "cyr_i">>,
      <<"cyr_shcha">> }

InitTop ==
    /\ russian \in Counters(TopPool, Cardinality(TopPool), MaxFreq)
    /\ czech = << <<<<"c", "h", "a">>, 2>>, <<<<"c", "h", "c", "h">>, 1>> >>
    /\ n \in 0..MaxN
    /\ TransStart

NextTop ==
    \/ Begin
    \/ NextWord
    \/ SkipCandidate
    \/ TryCandidate
    \/ EndOfCandidates
    \/ Yield
    \/ EndOfWords

SpecTop == InitTop /\ [][NextTop]_vars

\* the least levenshtein(trans, czech_processing(c)) over the words c of a
\* vocabulary, Inf for an empty one
RECURSIVE LeastDistance(_, _)
LeastDistance(trans, vocabulary) ==
    IF vocabulary = <<>>
    THEN Inf
    ELSE LET d    == levenshtein(trans, czech_processing(Head(vocabulary)))
             rest == LeastDistance(trans, Rest(vocabulary))
         IN  IF Less(d, rest) THEN d ELSE rest

\* C2: pruning never changes the minimum found: the best score a scan ends
\* with is the least distance from the transliterated word to any processed
\* target word.
C2_PruningKeepsMinimum ==
    pc = "yield" => best = LeastDistance(r_trans, sorted_czech)

\* C3: (w, '', Inf) is yielded exactly when best >= max(len(w),
\* len(candidate)), the boundary and the empty vocabulary included, and
\* (w, candidate, best) otherwise; in every triple yielded the candidate is
\* empty exactly when the score is Inf.
C3_RejectionRule ==
    /\ (pc = "for_r" /\ out # <<>>) =>
          LET last     == out[Len(out)]
              rejected == best = Inf \/ best >= Max(Len(r_word), Len(candidate))
          IN  /\ rejected => last = <<r_word, <<>>, Inf>>
              /\ ~rejected => last = <<r_word, candidate, best>>
              /\ sorted_czech = <<>> => last = <<r_word, <<>>, Inf>>
    /\ \A j \in 1..Len(out) : (out[j][2] = <<>>) <=> (out[j][3] = Inf)

\* a match rejected on the boundary: best = max(len(w), len(candidate))
C3_Witness ==
    /\ pc = "for_r"
    /\ out # <<>>
    /\ candidate # <<>>
    /\ best = Max(Len(r_word), Len(candidate))
    /\ out[Len(out)] = <<r_word, <<>>, Inf>>

\* the count of a word in a Counter
CountOf(counter, w) ==
    LET j == CHOOSE x \in 1..Len(counter) : counter[x][1] = w IN counter[j][2]

\* C4: translate_words yields one triple per source word for the min(n,
\* number of source words) most frequent source words, the most frequent
\* first: no word twice, none from outside the top n.
C4_TopWordsInOrder ==
    pc = "return" =>
        LET yielded_words == [j \in 1..Len(out) |-> out[j][1]]
            source_words  == {russian[j][1] : j \in 1..Len(russian)}
        IN  /\ Len(out) = IF n < Len(russian) THEN n ELSE Len(russian)
            /\ \A j \in 1..Len(out) : yielded_words[j] \in source_words
            /\ \A j, k \in 1..Len(out) :
                   j < k => /\ yielded_words[j] # yielded_words[k]
                            /\ CountOf(russian, yielded_words[j])
                                 >= CountOf(russian, yielded_words[k])
            /\ \A w \in source_words :
                   (\A j \in 1..Len(out) : yielded_words[j] # w) =>
                       \A j \in 1..Len(out) :
                           CountOf(russian, yielded_words[j]) >= CountOf(russian, w)

\* n cuts the list, the word inserted last is the most frequent, and the
\* two others tie: the one inserted first comes second
C4_Witness ==
    /\ pc = "return"
    /\ Len(russian) = 3
    /\ n = 2
    /\ Len(out) = 2
    /\ russian[3][2] > russian[1][2]
    /\ russian[1][2] = russian[2][2]
    /\ out[1][1] = russian[3][1]
    /\ out[2][1] = russian[1][1]

\* C7: the value of every levenshtein call is the value an evaluation
\* without the cache gives, whatever the cache holds, and a second run of
\* translate_words on the same arguments yields what the first run yielded.
C7_CacheTransparent ==
    /\ dist = levenshtein(source, target)
    /\ (pc = "return" /\ run = 2) => out = first_out

\* a second run ends, with matches found and the cache full
C7_Witness ==
    /\ pc = "return"
    /\ run = 2
    /\ Len(cache) = maxsize
    /\ Len(out) = 2
    /\ out[1][3] # Inf
    /\ out[2][3] = 0

\* C10: czech_processing's palatalization marker is the character that
\* transliteration gives for the soft sign, so that the soft-sign spelling
\* and the caron spelling of n are at distance 0.
C10_SameMarker ==
    ( /\ pc \in {"for_c", "yield"}
      /\ r_word = <<"cyr_n", "cyr_soft">>
      /\ source = r_trans
      /\ target = czech_processing(<<"n_caron">>) ) =>
        /\ source[Len(source)] = target[Len(target)]
        /\ dist = 0

(***************************************************************************)
(* Trie, project.py 5-101.  A node is named by the letters that lead to it *)
(* from the root, the last letter of the word first; nodes maps every node *)
(* that exists to its genders Counter, a function from Genders to counts   *)
(* in which a gender never recorded at the node counts 0.  A probability   *)
(* is a fraction <<numerator, denominator>> in lowest terms: the model     *)
(* divides exactly where Python divides in floating point.                 *)
(***************************************************************************)
Genders == {"f", "m"}

RECURSIVE GCD(_, _)
GCD(a, b) == IF b = 0 THEN a ELSE GCD(b, a % b)

Frac(a, b) == LET g == GCD(a, b) IN <<a \div g, b \div g>>

FracAdd(x, y) == Frac(x[1] * y[2] + y[1] * x[2], x[2] * y[2])

FracDiv(x, y) == Frac(x[1] * y[2], x[2] * y[1])

RECURSIVE FracSum(_, _)
\* the sum of term[e] over the elements e of a set
FracSum(elements, term) ==
    IF elements = {}
    THEN <<0, 1>>
    ELSE LET e == CHOOSE x \in elements : TRUE
         IN  FracAdd(term[e], FracSum(elements \ {e}, term))

RECURSIVE NatSum(_, _)
NatSum(elements, term) ==
    IF elements = {}
    THEN 0
    ELSE LET e == CHOOSE x \in elements : TRUE
         IN  term[e] + NatSum(elements \ {e}, term)

\* word[:-1]
Front(w) == SubSeq(w, 1, Len(w) - 1)

\* Counter()
NoGenders == [g \in Genders |-> 0]

\* what guess returns: False, or a dict from genders to probabilities
FalseValue == [kind |-> "False", probs |-> <<>>]

DictValue(d) == [kind |-> "dict", probs |-> d]

\* the truth value Python gives such a value
Truthy(v) == v.kind = "dict" /\ DOMAIN v.probs # {}

\* total, lines 56-59
total(trie, node) == NatSum(Genders, trie[node])

\* probabilities, lines 61-65
probabilities(trie, node) ==
    [g \in {x \in Genders : trie[node][x] > 0} |->
        Frac(trie[node][g], total(trie, node))]

\* self.links of the root: the nodes one letter down
RootLinks(trie) == {node \in DOMAIN trie : Len(node) = 1}

\* the bug of dividing by the number of links instead of the sum
most_diverse_class_per_link(trie) ==
    LET links == RootLinks(trie)
        keys  == {g \in Genders : \E node \in links : trie[node][g] > 0}
        c     == [g \in keys |->
                    FracSum({node \in links : trie[node][g] > 0},
                            [node \in links |->
                                IF trie[node][g] > 0
                                THEN probabilities(trie, node)[g]
                                ELSE <<0, 1>>])]
    IN  [g \in keys |-> FracDiv(c[g], <<Cardinality(links), 1>>)]

\* most_diverse_class, lines 78-85
most_diverse_class(trie) ==
    LET links == RootLinks(trie)
        keys  == {g \in Genders : \E node \in links : trie[node][g] > 0}
        c     == [g \in keys |->
                    FracSum({node \in links : trie[node][g] > 0},
                            [node \in links |->
                                IF trie[node][g] > 0
                                THEN probabilities(trie, node)[g]
                                ELSE <<0, 1>>])]
        sum   == FracSum(keys, c)
    IN  [g \in keys |-> IF sum[1] # 0 THEN FracDiv(c[g], sum) ELSE <<0, 1>>]

\* record, lines 67-76, called on node: the trie afterwards
RECURSIVE record(_, _, _, _)
record(trie, node, w, gender) ==
    LET counted == [trie EXCEPT ![node][gender] = @ + 1]
    IN  IF w # <<>>
        THEN LET link    == Append(node, w[Len(w)])
                 \* self.links is a defaultdict: a missing link is made
                 linked  == IF link \in DOMAIN counted
                            THEN counted
                            ELSE (link :> NoGenders) @@ counted
             IN  record(linked, link, Front(w), gender)
        ELSE counted

\* guess, lines 88-101, called on node: [value, trie], the trie with the
\* links the defaultdict made on the way
RECURSIVE guess(_, _, _)
guess(trie, node, w) ==
    IF total(trie, node) = 0
    THEN [value |-> FalseValue, trie |-> trie]
    ELSE LET link   == Append(node, w[Len(w)])
             linked == IF w = <<>> \/ link \in DOMAIN trie
                       THEN trie
                       ELSE (link :> NoGenders) @@ trie
             next   == IF w # <<>>
                       THEN guess(linked, link, Front(w))
                       ELSE [value |-> FalseValue, trie |-> trie]
         IN  IF Truthy(next.value)
             THEN next
             ELSE IF node # <<>>
             THEN [value |-> DictValue(probabilities(next.trie, node)),
                   trie  |-> next.trie]
             ELSE [value |-> DictValue(most_diverse_class(next.trie)),
                   trie  |-> next.trie]

RecordWords ==
    { <<"p", "i", "z", "z", "a">>,
      <<"p", "l", "a", "z", "a">>,
      <<"p", "a", "l", "a", "z", "z", "o">>,
      <<>> }

GuessWords ==
    { <<"s", "c", "a", "l", "a">>,
      <<"r", "a", "z", "z", "o">>,
      <<"z", "a">>,
      <<"x">>,
      <<>> }

\* how many times each word was recorded with each gender
Recordings == NatSum(RecordWords \X Genders, recorded)

InitTrie ==
    /\ nodes = (<<>> :> NoGenders)
    /\ recorded = [e \in RecordWords \X Genders |-> 0]
    /\ guessed = [word |-> <<>>, value |-> FalseValue]
    /\ pc = "trie"
    /\ LevIdle /\ CacheIdle /\ OrderIdle /\ TransIdle

Record(w, gender) ==
    /\ Recordings < MaxRecords
    /\ nodes' = record(nodes, <<>>, w, gender)
    /\ recorded' = [recorded EXCEPT ![<<w, gender>>] = @ + 1]
    /\ pc' = "trie"
    /\ UNCHANGED <<guessed, levVars, cache, orderVars, transVars>>

Guess(w) ==
    /\ LET call == guess(nodes, <<>>, w)
       IN  /\ guessed' = [word |-> w, value |-> call.value]
           /\ nodes' = call.trie
    /\ pc' = "guessed"
    /\ UNCHANGED <<recorded, levVars, cache, orderVars, transVars>>

NextTrie ==
    \/ \E w \in RecordWords, gender \in Genders : Record(w, gender)
    \/ \E w \in GuessWords : Guess(w)

SpecTrie == InitTrie /\ [][NextTrie]_vars

\* whether s is a suffix of w
IsSuffix(s, w) ==
    Len(s) <= Len(w) /\ SubSeq(w, Len(w) - Len(s) + 1, Len(w)) = s

\* how often a word ending in s was recorded with gender g
RecordedWith(s, g) ==
    NatSum({w \in RecordWords : IsSuffix(s, w)},
           [w \in RecordWords |-> recorded[<<w, g>>]])

\* the relative counts of the genders among the recorded words ending in s
RelativeCounts(s) ==
    LET all == NatSum(Genders, [g \in Genders |-> RecordedWith(s, g)])
    IN  [g \in {x \in Genders : RecordedWith(s, x) > 0} |->
            Frac(RecordedWith(s, g), all)]

\* the suffixes of w, of at least one character, that recorded words end in
SharedSuffixes(w) ==
    {s \in {SubSeq(w, k, Len(w)) : k \in 1..Len(w)} :
        \E g \in Genders : RecordedWith(s, g) > 0}

\* the relative counts of the final letters of the recorded words, summed
\* gender by gender and scaled to sum to 1
FinalLetterMix ==
    LET letters == {<<w[Len(w)]>> : w \in {x \in RecordWords :
                        x # <<>> /\ \E g \in Genders : recorded[<<x, g>>] > 0}}
        keys    == {g \in Genders : \E l \in letters : RecordedWith(l, g) > 0}
        share   == [g \in keys |->
                      FracSum({l \in letters : RecordedWith(l, g) > 0},
                              [l \in letters |->
                                  IF RecordedWith(l, g) > 0
                                  THEN RelativeCounts(l)[g]
                                  ELSE <<0, 1>>])]
    IN  [g \in keys |-> FracDiv(share[g], <<Cardinality(letters), 1>>)]

\* C9: guess(word) is False on a trie with nothing recorded; otherwise the
\* relative gender counts, summing to 1, of the recorded words ending in
\* the longest suffix of word that any recorded word ends in; and the
\* root's most_diverse_class when no recorded word ends in the last letter
\* of word or word is empty.  The words recorded decide the value alone:
\* links made by earlier guess calls do not.
C9_GuessLongestSuffix ==
    pc = "guessed" =>
        LET w      == guessed.word
            shared == SharedSuffixes(w)
        IN  IF Recordings = 0
            THEN guessed.value = FalseValue
            ELSE IF shared # {}
            THEN LET s == CHOOSE x \in shared : \A y \in shared : Len(x) >= Len(y)
                 IN  /\ guessed.value = DictValue(RelativeCounts(s))
                     /\ FracSum(DOMAIN guessed.value.probs, guessed.value.probs)
                          = <<1, 1>>
            ELSE guessed.value = DictValue(FinalLetterMix)

\* the docstring's example
C9_Witness ==
    /\ pc = "guessed"
    /\ recorded[<<<<"p", "i", "z", "z", "a">>, "f">>] = 1
    /\ recorded[<<<<"p", "l", "a", "z", "a">>, "f">>] = 1
    /\ recorded[<<<<"p", "a", "l", "a", "z", "z", "o">>, "m">>] = 1
    /\ guessed.word = <<"s", "c", "a", "l", "a">>
    /\ guessed.value = DictValue(("f" :> <<1, 1>>))
    /\ <<"x">> \in DOMAIN nodes

====
